---- MODULE Spec2Model ----
(***************************************************************************)
(* scribeAI front end: the intake form (MedicalForm.jsx), its per-field    *)
(* mic buttons (MicButton, same file) and the page that owns the whole-    *)
(* consultation recorder, the record store and the CSV export              *)
(* (DetailsPage, src/unnamed/part_000).                                    *)
(*                                                                         *)
(* JavaScript values are strings here; the one non-string value the model  *)
(* needs, JSON null, is the reserved string NULL.  A JavaScript object is  *)
(* a function whose DOMAIN is the set of its keys.                         *)
(*                                                                         *)
(* Three specifications share the variables:                               *)
(*   Spec        the form, the two localStorage entries and the status,    *)
(*               driven by the operator's buttons and by the results the   *)
(*               capture sessions deliver;                                 *)
(*   SpecCapture the capture sessions themselves (getUserMedia promises,   *)
(*               MediaRecorder objects, chunk buffers, requests in flight) *)
(*               and what their results do to the form;                    *)
(*   SpecCsv     handleExportToCsv on a store whose values are spelled out *)
(*               character by character.                                   *)
(***************************************************************************)
EXTENDS Integers, Sequences, FiniteSets, TLC

VARIABLES
    formData,           \* MedicalForm: useState(getInitialState())
    fixedFields,        \* localStorage["fixedFields"], parsed
    dentalCampRecords,  \* localStorage["dentalCampRecords"], parsed (<<>> when absent)
    recordsCorrupt,     \* localStorage["dentalCampRecords"] does not parse
    status,             \* DetailsPage: useState({message, color})
    pendingMic,         \* per capture context: getUserMedia promises not yet settled
    recorders,          \* per capture context: the MediaRecorder objects created so far
    mediaRecorderRef,   \* per capture context: index of mediaRecorderRef.current, 0 = null
    audioChunksRef,     \* per capture context: audioChunksRef.current
    isRecording,        \* per capture context: useState(false)
    isProcessing,       \* per capture context: useState(false)
    inflight,           \* per capture context: payloads of the requests not yet resolved
    orphanStreams,      \* per capture context: streams granted whose recorder was never built
    csvRecords,         \* SpecCsv: the records handed to the export
    csvExport           \* SpecCsv: what the export built, NoExport before it

formVars    == <<formData, fixedFields, dentalCampRecords, recordsCorrupt, status>>
captureVars == <<pendingMic, recorders, mediaRecorderRef, audioChunksRef,
                 isRecording, isProcessing, inflight, orphanStreams>>
csvVars     == <<csvRecords, csvExport>>
vars        == <<formVars, captureVars, csvVars>>

----------------------------------------------------------------------------
(* Bounds of the model.                                                    *)

MaxRecords == 2     \* submits accepted while the store holds fewer records
MaxStarts  == 2     \* getUserMedia calls followed in one behaviour, over all contexts
MaxLen     == 2     \* length of a generated CSV value, in characters

----------------------------------------------------------------------------
(* Values and objects.                                                     *)

NULL == "<null>"

\* The text an input, a transcription or an extraction can put in a field.
Texts == {"", "x"}

\* JavaScript truthiness of a value of the model: '' and null are falsy.
Truthy(v) == v # "" /\ v # NULL

\* {...a, ...b}
Spread(a, b) ==
    [k \in (DOMAIN a) \cup (DOMAIN b) |-> IF k \in DOMAIN b THEN b[k] ELSE a[k]]

\* The object {key: value}.
Single(key, value) == [k \in {key} |-> value]

EmptyObject == [k \in {} |-> ""]

\* The export has built nothing yet.
NoExport == [done |-> FALSE, cells |-> <<>>, text |-> <<>>]

----------------------------------------------------------------------------
(* MedicalForm.                                                            *)
(* The code treats every key of getInitialState alike, and every key of    *)
(* FIXED_FIELDS alike; the model keeps one of the five fixed fields and    *)
(* one of the thirty-six others.                                           *)

FIXED_FIELDS == {"organised_by"}

TransientFields == {"patient_name"}

FieldNames == FIXED_FIELDS \cup TransientFields

getInitialState == [k \in FieldNames |-> ""]

\* The save effect: fixedData[key] = formData[key] for each fixed key, stored.
saveFixedFields(data) == [k \in FIXED_FIELDS |-> data[k]]

\* setFormData(prev => ({...prev, [key]: value}))
handleChangeState(prev, key, value) == Spread(prev, Single(key, value))

\* A transcription that starts from the empty form instead of prev.
handleTranscriptionFromInitial(prev, fieldId, text) ==
    Spread(getInitialState, Single(fieldId, text))

\* setFormData(prev => ({...prev, [fieldId]: text}))
handleTranscription(prev, fieldId, text) == Spread(prev, Single(fieldId, text))

\* fillForm replacing the form by the result instead of merging into it.
fillFormReplaces(prev, apiData) == Spread(getInitialState, apiData)

\* setFormData(prev => ({...prev, ...apiData}))
fillForm(prev, apiData) == Spread(prev, apiData)

\* resetForm forgetting the saved fixed fields.
resetFormDropsSaved(saved) == getInitialState

\* {...initial, ...saved}, saved being the parsed fixedFields entry or {}
resetForm(saved) == Spread(getInitialState, saved)

\* ({...formData}) of the last render
getFormData(data) == data

----------------------------------------------------------------------------
(* Status channel: setStatus({message, color}); count carries the number a *)
(* message interpolates (0 when it interpolates none).                     *)

Status(message, count, color) == [message |-> message, count |-> count, color |-> color]

InitialStatus ==
    Status("Start recording the consultation or use the mic on any field.", 0, "blue")

----------------------------------------------------------------------------
(* Responses of the two endpoints.  kind "network": fetch rejects;         *)
(* "http": a response with !response.ok; "json": a 2xx response with the   *)
(* parsed body in body.                                                    *)

Response(kind, body) == [kind |-> kind, body |-> body]

\* Bodies of /transcribe: {text} or {error}.
TranscribeBodies == {Single("text", t) : t \in Texts} \cup {Single("error", "boom")}

TranscribeResponses ==
    {Response("network", EmptyObject), Response("http", EmptyObject)}
        \cup {Response("json", b) : b \in TranscribeBodies}

\* extracted_data objects of /process_audio: partial results, one with a JSON
\* null, one with a key the form does not have.
ExtractedData ==
    { Single("patient_name", "x"),
      Spread(Single("organised_by", "x"), Single("patient_name", "")),
      Single("patient_name", NULL),
      Single("extra_key", "x") }

\* Bodies of /process_audio: {extracted_data}, {error}, or neither.  The model
\* keeps extracted_data beside the body's other keys: has says which keys the
\* body has, data is extracted_data when it has one.
ExtractBody(has, error, data) == [has |-> has, error |-> error, data |-> data]

ExtractBodies ==
    {ExtractBody({"extracted_data"}, "", d) : d \in ExtractedData}
        \cup {ExtractBody({"error"}, "boom", EmptyObject),
              ExtractBody({}, "", EmptyObject)}

ExtractResponses ==
    {Response("network", ExtractBody({}, "", EmptyObject)),
     Response("http", ExtractBody({"error"}, "boom", EmptyObject)),
     Response("http", ExtractBody({}, "", EmptyObject))}
        \cup {Response("json", b) : b \in ExtractBodies}

\* if (result.error) on a /transcribe body
resultError(body) == "error" \in DOMAIN body /\ Truthy(body["error"])

\* A catch that also blanks the targeted field.
transcribeAudioBlanksOnError(prev, fieldId, response) ==
    IF response.kind = "json" /\ ~resultError(response.body)
    THEN [formData |-> handleTranscription(prev, fieldId, response.body["text"]),
          status |-> Status("Transcription completed.", 0, "green")]
    ELSE [formData |-> handleTranscription(prev, fieldId, ""),
          status |-> Status("Error: Server error during transcription", 0, "red")]

\* What transcribeAudio's try/catch does with the response: the new formData
\* and the status it reports.
transcribeAudioOutcome(prev, fieldId, response) ==
    IF response.kind = "network"
    THEN [formData |-> prev, status |-> Status("Error: Failed to fetch", 0, "red")]
    ELSE IF response.kind = "http"
    THEN [formData |-> prev,
          status |-> Status("Error: Server error during transcription", 0, "red")]
    ELSE IF resultError(response.body)
    THEN [formData |-> prev, status |-> Status("Error: boom", 0, "red")]
    ELSE [formData |-> handleTranscription(prev, fieldId, response.body["text"]),
          status |-> Status("Transcription completed.", 0, "green")]

\* Object.values(data).filter(Boolean).length
filledCount(data) == Cardinality({k \in DOMAIN data : Truthy(data[k])})

\* handleApiResponse(result), and the catch of processAudio around it: with
\* neither error nor extracted_data, fillForm(undefined) changes nothing and
\* Object.values(undefined) throws into the catch.
handleApiResponse(prev, body) ==
    IF "error" \in body.has /\ Truthy(body.error)
    THEN [formData |-> prev, status |-> Status("Error: boom", 0, "red")]
    ELSE IF "extracted_data" \notin body.has
    THEN [formData |-> prev,
          status |-> Status("Error: Cannot convert undefined or null to object", 0, "red")]
    ELSE [formData |-> fillForm(prev, body.data),
          status |-> Status("Analysis complete. N fields were filled. Please review.",
                            filledCount(body.data), "green")]

\* What processAudio's try/catch does with the response.
processAudioOutcome(prev, response) ==
    IF response.kind = "network"
    THEN [formData |-> prev, status |-> Status("Error: Failed to fetch", 0, "red")]
    ELSE IF response.kind = "http"
    THEN [formData |-> prev,
          status |-> IF "error" \in response.body.has /\ Truthy(response.body.error)
                     THEN Status("Error: boom", 0, "red")
                     ELSE Status("Error: Server error: statusText", 0, "red")]
    ELSE handleApiResponse(prev, response.body)

----------------------------------------------------------------------------
(* Rendering.  Every setFormData is followed by a render whose save effect *)
(* rewrites the fixedFields entry before the next event is handled.        *)

Commit(data) ==
    /\ formData' = data
    /\ fixedFields' = saveFixedFields(data)

----------------------------------------------------------------------------
(* Capture contexts: the whole-consultation recorder of DetailsPage and    *)
(* the MicButton of one field.                                             *)

WHOLE == "whole consultation"

MicFields == {"patient_name"}

Targets == {WHOLE} \cup MicFields

\* The buttons of DetailsPage are disabled={isRecording || isProcessing}.
ButtonsEnabled == ~isRecording[WHOLE] /\ ~isProcessing[WHOLE]

----------------------------------------------------------------------------
(* Operations on the form and the record store (Spec).                     *)

\* An input's onChange.
handleChange(key, value) ==
    /\ Commit(handleChangeState(formData, key, value))
    /\ UNCHANGED <<dentalCampRecords, recordsCorrupt, status, captureVars, csvVars>>

\* A MicButton's request resolves: what transcribeAudio does to the form and
\* the status (its session bookkeeping is followed in SpecCapture).
DeliverTranscription(fieldId, response) ==
    /\ LET out == transcribeAudioOutcome(formData, fieldId, response) IN
       /\ Commit(out.formData)
       /\ status' = out.status
    /\ UNCHANGED <<dentalCampRecords, recordsCorrupt, captureVars, csvVars>>

\* The whole-consultation request resolves: what processAudio does to the form
\* and the status (its session bookkeeping is followed in SpecCapture).
DeliverExtraction(response) ==
    /\ LET out == processAudioOutcome(formData, response) IN
       /\ Commit(out.formData)
       /\ status' = out.status
    /\ UNCHANGED <<dentalCampRecords, recordsCorrupt, captureVars, csvVars>>

\* The form after formRef.current.resetForm(): initial state with the saved
\* fixedFields entry on top.
resetFormState == resetForm(fixedFields)

\* "Reset Current Form".  if (isRecording) stopRecording() cannot run from the
\* button: it is disabled while isRecording.
handleResetForm ==
    /\ ButtonsEnabled
    /\ Commit(resetFormState)
    /\ status' = Status("Form cleared. Ready for next entry.", 0, "blue")
    /\ UNCHANGED <<dentalCampRecords, recordsCorrupt, captureVars, csvVars>>

\* The emptiness test comparing with null instead of ''.
isFormEmptyNullTest(data) == \A k \in DOMAIN data : data[k] = NULL

\* Object.values(currentFormData).every(val => val === '')
isFormEmpty(data) == \A k \in DOMAIN data : data[k] = ""

\* JSON.parse(localStorage.getItem('dentalCampRecords') || '[]') of
\* handleSubmitRecord, with its catch: a corrupt entry reads as [].
readRecordsForSubmit == IF recordsCorrupt THEN <<>> ELSE dentalCampRecords

\* The store overwritten with the new record instead of extended by it.
pushRecordOverwrites(allRecords, currentFormData) == <<currentFormData>>

\* The new record put before the stored ones instead of after them.
pushRecordPrepends(allRecords, currentFormData) == <<currentFormData>> \o allRecords

\* allRecords.push(currentFormData)
pushRecord(allRecords, currentFormData) == Append(allRecords, currentFormData)

\* A submit whose handleResetForm() call stands after the try/catch instead of
\* inside the try: the form is reset whether or not the write succeeded.
handleSubmitRecordResetsAfterCatch(writable) ==
    /\ ButtonsEnabled
    /\ LET currentFormData == getFormData(formData) IN
       IF isFormEmpty(currentFormData)
       THEN /\ status' = Status("Form is empty, nothing to submit.", 0, "blue")
            /\ UNCHANGED <<formData, fixedFields, dentalCampRecords, recordsCorrupt>>
       ELSE /\ Len(readRecordsForSubmit) < MaxRecords
            /\ IF writable
               THEN /\ dentalCampRecords' = pushRecord(readRecordsForSubmit, currentFormData)
                    /\ recordsCorrupt' = FALSE
               ELSE UNCHANGED <<dentalCampRecords, recordsCorrupt>>
            /\ Commit(resetFormState)
            /\ status' = Status("Form cleared. Ready for next entry.", 0, "blue")
    /\ UNCHANGED <<captureVars, csvVars>>

\* "Submit Record".  writable: localStorage.setItem does not throw.  The
\* success status is set and then overwritten by handleResetForm's in the same
\* event.
handleSubmitRecord(writable) ==
    /\ ButtonsEnabled
    /\ LET currentFormData == getFormData(formData) IN
       IF isFormEmpty(currentFormData)
       THEN /\ status' = Status("Form is empty, nothing to submit.", 0, "blue")
            /\ UNCHANGED <<formData, fixedFields, dentalCampRecords, recordsCorrupt>>
       ELSE /\ Len(readRecordsForSubmit) < MaxRecords
            /\ IF writable
               THEN /\ dentalCampRecords' = pushRecord(readRecordsForSubmit, currentFormData)
                    /\ recordsCorrupt' = FALSE
                    /\ Commit(resetFormState)
                    /\ status' = Status("Form cleared. Ready for next entry.", 0, "blue")
               ELSE /\ status' = Status("Error saving to local record cache.", 0, "red")
                    /\ UNCHANGED <<formData, fixedFields, dentalCampRecords, recordsCorrupt>>
    /\ UNCHANGED <<captureVars, csvVars>>

\* "Export All to CSV": the status it reports (the text it downloads is
\* followed in SpecCsv).
handleExportToCsv ==
    /\ ButtonsEnabled
    /\ status' = IF recordsCorrupt
                 THEN Status("Error reading local cache.", 0, "red")
                 ELSE IF Len(dentalCampRecords) = 0
                 THEN Status("No records saved to export.", 0, "blue")
                 ELSE Status("Successfully exported N records.",
                             Len(dentalCampRecords), "green")
    /\ UNCHANGED <<formData, fixedFields, dentalCampRecords, recordsCorrupt,
                   captureVars, csvVars>>

\* "Clear All Saved Data".  confirmed: the answer to window.confirm.
handleClearCache(confirmed) ==
    /\ ButtonsEnabled
    /\ IF confirmed
       THEN /\ dentalCampRecords' = <<>>
            /\ recordsCorrupt' = FALSE
            /\ status' = Status("Cleared local data. Ready to start a new session.", 0, "blue")
       ELSE UNCHANGED <<dentalCampRecords, recordsCorrupt, status>>
    /\ UNCHANGED <<formData, fixedFields, captureVars, csvVars>>

\* startNewDay behaving like resetForm: the fixed fields survive.
startNewDayKeepsFixed == resetFormState

\* The form startNewDay sets: getInitialState().
startNewDayState == getInitialState

\* formRef.current.startNewDay(): the fixedFields entry is removed, the form
\* is the initial state, and the render's save effect writes the entry anew.
startNewDay ==
    /\ Commit(startNewDayState)
    /\ UNCHANGED <<dentalCampRecords, recordsCorrupt, status, captureVars, csvVars>>

\* The two effects with the save effect declared first: the load effect reads
\* what the save effect of the first render has just written.
mountEffectsSaveFirst(entry) ==
    LET written == saveFixedFields(getInitialState)
        saved   == written
    IN  [saved |-> saved, entry |-> written]

\* The effects of the first render, in the order of their declaration: the
\* load effect parses the fixedFields entry, then the save effect writes the
\* fixed fields of the initial state over it.
mountEffects(entry) ==
    LET saved   == entry
        written == saveFixedFields(getInitialState)
    IN  [saved |-> saved, entry |-> written]

\* The page is loaded again: component state is new, localStorage is kept.
\* The load effect reads the saved entry before the first save effect
\* overwrites it, and the render it asks for saves it back.
Mount ==
    /\ ButtonsEnabled
    /\ Commit(Spread(getInitialState, mountEffects(fixedFields).saved))
    /\ status' = InitialStatus
    /\ UNCHANGED <<dentalCampRecords, recordsCorrupt, captureVars, csvVars>>

----------------------------------------------------------------------------

Idle == [c \in Targets |-> FALSE]

Init ==
    /\ formData = getInitialState
    /\ fixedFields = saveFixedFields(getInitialState)
    /\ dentalCampRecords = <<>>
    /\ recordsCorrupt \in BOOLEAN
    /\ status = InitialStatus
    /\ pendingMic = [c \in Targets |-> 0]
    /\ recorders = [c \in Targets |-> <<>>]
    /\ mediaRecorderRef = [c \in Targets |-> 0]
    /\ audioChunksRef = [c \in Targets |-> <<>>]
    /\ isRecording = Idle
    /\ isProcessing = Idle
    /\ inflight = [c \in Targets |-> {}]
    /\ orphanStreams = [c \in Targets |-> 0]
    /\ csvRecords = <<>>
    /\ csvExport = NoExport

Next ==
    \/ \E key \in FieldNames, value \in Texts : handleChange(key, value)
    \/ \E fieldId \in FieldNames, response \in TranscribeResponses :
          DeliverTranscription(fieldId, response)
    \/ \E response \in ExtractResponses : DeliverExtraction(response)
    \/ handleResetForm
    \/ \E writable \in BOOLEAN : handleSubmitRecord(writable)
    \/ handleExportToCsv
    \/ \E confirmed \in BOOLEAN : handleClearCache(confirmed)
    \/ startNewDay
    \/ Mount

Spec == Init /\ [][Next]_vars

----------------------------------------------------------------------------
(* Capture sessions (SpecCapture).  A context c is WHOLE (DetailsPage) or  *)
(* a field with a MicButton; both components hold the same state and the   *)
(* same two refs.  A MediaRecorder object is [state, live, stopQueued]:    *)
(* its state attribute, whether its stream's tracks are live, and whether  *)
(* stop() has queued its dataavailable and stop events.  mediaRecorder     *)
(* .start() has no timeslice, so a recorder delivers one chunk, when it    *)
(* stops; the chunk is named by the recorder's index.                      *)

Recorder(state, live, stopQueued) ==
    [state |-> state, live |-> live, stopQueued |-> stopQueued]

\* getUserMedia calls of context c that the model has followed so far.
Starts(c) == pendingMic[c] + Len(recorders[c]) + orphanStreams[c]

TotalStarts == Starts(WHOLE) + Starts("patient_name")

\* Controls (not among the sources): the start button is offered while the
\* page neither records nor processes, the stop button while it records.
ControlsStartEnabled == ~isRecording[WHOLE] /\ ~isProcessing[WHOLE]

ControlsStopEnabled == isRecording[WHOLE]

\* MicButton: disabled={isProcessing}; handleMicClick starts unless isRecording.
MicStartEnabled(c) == ~isProcessing[c] /\ ~isRecording[c]

MicStopEnabled(c) == ~isProcessing[c] /\ isRecording[c]

StartEnabled(c) == IF c = WHOLE THEN ControlsStartEnabled ELSE MicStartEnabled(c)

StopEnabled(c) == IF c = WHOLE THEN ControlsStopEnabled ELSE MicStopEnabled(c)

\* The status a granted start reports.
recordingStatus(c) ==
    IF c = WHOLE
    THEN Status("Recording full consultation...", 0, "red")
    ELSE Status("Recording for fieldId...", 0, "blue")

micErrorStatus == Status("Error: Could not access microphone.", 0, "red")

\* startRecording(): navigator.mediaDevices.getUserMedia({audio: true}) is
\* called; nothing else happens until the promise settles.
startRecording(c) ==
    /\ StartEnabled(c)
    /\ TotalStarts < MaxStarts
    /\ pendingMic' = [pendingMic EXCEPT ![c] = @ + 1]
    /\ UNCHANGED <<formVars, recorders, mediaRecorderRef, audioChunksRef,
                   isRecording, isProcessing, inflight, orphanStreams, csvVars>>

\* The refs after the .then callback has built and started its recorder:
\* mediaRecorderRef.current = mediaRecorder; audioChunksRef.current = [].
installRecorder(c) ==
    /\ recorders' = [recorders EXCEPT ![c] = Append(@, Recorder("recording", TRUE, FALSE))]
    /\ mediaRecorderRef' = [mediaRecorderRef EXCEPT ![c] = Len(recorders[c]) + 1]
    /\ audioChunksRef' = [audioChunksRef EXCEPT ![c] = <<>>]

\* The promise resolves with a stream and the .then callback runs to its end.
getUserMediaGranted(c) ==
    /\ pendingMic[c] > 0
    /\ pendingMic' = [pendingMic EXCEPT ![c] = @ - 1]
    /\ installRecorder(c)
    /\ isRecording' = [isRecording EXCEPT ![c] = TRUE]
    /\ status' = recordingStatus(c)
    /\ UNCHANGED <<formData, fixedFields, dentalCampRecords, recordsCorrupt,
                   isProcessing, inflight, orphanStreams, csvVars>>

\* The promise resolves with a stream and new MediaRecorder(stream, {mimeType:
\* 'audio/webm'}) throws (the type is not supported): the .catch reports the
\* microphone error.  MicButton has already called setIsRecording(true);
\* DetailsPage has not.  Nothing stops the stream's tracks.
getUserMediaGrantedSetupFails(c) ==
    /\ pendingMic[c] > 0
    /\ pendingMic' = [pendingMic EXCEPT ![c] = @ - 1]
    /\ orphanStreams' = [orphanStreams EXCEPT ![c] = @ + 1]
    /\ isRecording' = IF c = WHOLE THEN isRecording ELSE [isRecording EXCEPT ![c] = TRUE]
    /\ status' = micErrorStatus
    /\ UNCHANGED <<formData, fixedFields, dentalCampRecords, recordsCorrupt,
                   recorders, mediaRecorderRef, audioChunksRef, isProcessing,
                   inflight, csvVars>>

\* The promise rejects: the .catch reports the microphone error.
getUserMediaDenied(c) ==
    /\ pendingMic[c] > 0
    /\ pendingMic' = [pendingMic EXCEPT ![c] = @ - 1]
    /\ status' = micErrorStatus
    /\ UNCHANGED <<formData, fixedFields, dentalCampRecords, recordsCorrupt,
                   recorders, mediaRecorderRef, audioChunksRef, isRecording,
                   isProcessing, inflight, orphanStreams, csvVars>>

\* mediaRecorderRef.current && mediaRecorderRef.current.state === "recording"
currentIsRecording(c) ==
    /\ mediaRecorderRef[c] # 0
    /\ recorders[c][mediaRecorderRef[c]].state = "recording"

\* stopRecording(): when the current recorder records, stop() makes it inactive
\* and queues its events, its tracks are stopped and isRecording is reset;
\* MicButton also reports that it transcribes.  Otherwise nothing happens.
stopRecording(c) ==
    /\ StopEnabled(c)
    /\ IF currentIsRecording(c)
       THEN /\ recorders' = [recorders EXCEPT ![c][mediaRecorderRef[c]] =
                                 Recorder("inactive", FALSE, TRUE)]
            /\ isRecording' = [isRecording EXCEPT ![c] = FALSE]
            /\ status' = IF c = WHOLE THEN status
                         ELSE Status("Transcribing for fieldId...", 0, "blue")
       ELSE UNCHANGED <<recorders, isRecording, status>>
    /\ UNCHANGED <<formData, fixedFields, dentalCampRecords, recordsCorrupt,
                   pendingMic, mediaRecorderRef, audioChunksRef, isProcessing,
                   inflight, orphanStreams, csvVars>>

\* The task stop() queued runs for recorder r of context c: "dataavailable"
\* pushes the chunk, "stop" builds the Blob from audioChunksRef.current and
\* sends it (MicButton: transcribeAudio; DetailsPage: processAudio, which first
\* reports that it analyses).  The request is then in flight.
recorderStopped(c, r) ==
    /\ r \in 1..Len(recorders[c])
    /\ recorders[c][r].stopQueued
    /\ LET chunks == Append(audioChunksRef[c], r) IN
       /\ audioChunksRef' = [audioChunksRef EXCEPT ![c] = chunks]
       /\ inflight' = [inflight EXCEPT ![c] = @ \cup {chunks}]
    /\ recorders' = [recorders EXCEPT ![c][r].stopQueued = FALSE]
    /\ isProcessing' = [isProcessing EXCEPT ![c] = TRUE]
    /\ status' = IF c = WHOLE
                 THEN Status("Transcribing and analyzing... Please wait.", 0, "blue")
                 ELSE status
    /\ UNCHANGED <<formData, fixedFields, dentalCampRecords, recordsCorrupt,
                   pendingMic, mediaRecorderRef, isRecording, orphanStreams, csvVars>>

\* The responses context c's endpoint can give.
Responses(c) == IF c = WHOLE THEN ExtractResponses ELSE TranscribeResponses

\* What the try/catch of context c's request does with the response.
requestOutcome(c, response) ==
    IF c = WHOLE
    THEN processAudioOutcome(formData, response)
    ELSE transcribeAudioOutcome(formData, c, response)

\* A request whose clean-up stands at the end of the try instead of in a
\* finally: after a failure the buffer and isProcessing stay as they are.
requestResolvedCleansUpInTry(c, payload, response) ==
    /\ payload \in inflight[c]
    /\ inflight' = [inflight EXCEPT ![c] = @ \ {payload}]
    /\ LET out == requestOutcome(c, response) IN
       /\ Commit(out.formData)
       /\ status' = out.status
       /\ IF out.status.color = "red"
          THEN UNCHANGED <<audioChunksRef, isProcessing>>
          ELSE /\ audioChunksRef' = [audioChunksRef EXCEPT ![c] = <<>>]
               /\ isProcessing' = [isProcessing EXCEPT ![c] = FALSE]
    /\ UNCHANGED <<dentalCampRecords, recordsCorrupt, pendingMic, recorders,
                   mediaRecorderRef, isRecording, orphanStreams, csvVars>>

\* The request with this payload resolves: try/catch as above, then finally:
\* audioChunksRef.current = [] and setIsProcessing(false).
requestResolved(c, payload, response) ==
    /\ payload \in inflight[c]
    /\ inflight' = [inflight EXCEPT ![c] = @ \ {payload}]
    /\ LET out == requestOutcome(c, response) IN
       /\ Commit(out.formData)
       /\ status' = out.status
    /\ audioChunksRef' = [audioChunksRef EXCEPT ![c] = <<>>]
    /\ isProcessing' = [isProcessing EXCEPT ![c] = FALSE]
    /\ UNCHANGED <<dentalCampRecords, recordsCorrupt, pendingMic, recorders,
                   mediaRecorderRef, isRecording, orphanStreams, csvVars>>

NextCapture ==
    \/ \E c \in Targets : startRecording(c)
    \/ \E c \in Targets : getUserMediaGranted(c)
    \/ \E c \in Targets : getUserMediaGrantedSetupFails(c)
    \/ \E c \in Targets : getUserMediaDenied(c)
    \/ \E c \in Targets : stopRecording(c)
    \/ \E c \in Targets, r \in 1..MaxStarts : recorderStopped(c, r)
    \/ \E c \in Targets : \E payload \in inflight[c], response \in Responses(c) :
          requestResolved(c, payload, response)

\* The page as loaded, its record store readable.
InitCapture == Init /\ ~recordsCorrupt

SpecCapture == InitCapture /\ [][NextCapture]_vars

\* SpecCapture with the progress the platform gives: the task a recorder's
\* stop() queued runs, and (the case the spec considers) every request that
\* was sent resolves.  Clicks and permission answers are under no obligation.
FairCapture ==
    /\ \A c \in Targets : WF_vars(\E r \in 1..MaxStarts : recorderStopped(c, r))
    /\ \A c \in Targets :
          WF_vars(\E payload \in inflight[c], response \in Responses(c) :
                     requestResolved(c, payload, response))

SpecCaptureFair == InitCapture /\ [][NextCapture]_vars /\ FairCapture

----------------------------------------------------------------------------
(* CSV export (SpecCsv).  A string is the sequence of its characters; a    *)
(* stored record is the sequence of its <<key, value>> entries, in the     *)
(* insertion order Object.keys gives.                                      *)

COMMA   == ","
QUOTE   == "\""
NEWLINE == "\n"

\* array.join(sep) for an array of strings
RECURSIVE Join(_, _)
Join(strings, sep) ==
    IF strings = <<>> THEN <<>>
    ELSE IF Len(strings) = 1 THEN strings[1]
    ELSE strings[1] \o sep \o Join(Tail(strings), sep)

\* Object.keys(record)
ObjectKeys(record) == [i \in 1..Len(record) |-> record[i][1]]

\* record[header] || '': the value of the entry with that key, '' without one
valueOf(record, header) ==
    IF \E i \in 1..Len(record) : record[i][1] = header
    THEN record[CHOOSE i \in 1..Len(record) : record[i][1] = header][2]
    ELSE <<>>

\* stringValue.includes(',') || stringValue.includes('\n') || stringValue.includes('"')
needsQuoting(stringValue) ==
    \E i \in 1..Len(stringValue) : stringValue[i] \in {COMMA, NEWLINE, QUOTE}

\* replace('"', '""'): only the first double quote is doubled.
RECURSIVE replaceFirstQuote(_)
replaceFirstQuote(stringValue) ==
    IF stringValue = <<>> THEN <<>>
    ELSE IF Head(stringValue) = QUOTE THEN <<QUOTE, QUOTE>> \o Tail(stringValue)
    ELSE <<Head(stringValue)>> \o replaceFirstQuote(Tail(stringValue))

\* stringValue.replace(/"/g, '""')
RECURSIVE replaceQuotes(_)
replaceQuotes(stringValue) ==
    IF stringValue = <<>> THEN <<>>
    ELSE (IF Head(stringValue) = QUOTE THEN <<QUOTE, QUOTE>> ELSE <<Head(stringValue)>>)
             \o replaceQuotes(Tail(stringValue))

\* One element of sanitizedValues.
sanitizedValue(record, header) ==
    LET stringValue == valueOf(record, header) IN
    IF needsQuoting(stringValue)
    THEN <<QUOTE>> \o replaceQuotes(stringValue) \o <<QUOTE>>
    ELSE stringValue

\* Each record exported under its own keys instead of the first record's.
sanitizedRowsOwnKeys(allRecords) ==
    [r \in 1..Len(allRecords) |->
        [h \in 1..Len(allRecords[r]) |->
            sanitizedValue(allRecords[r], ObjectKeys(allRecords[r])[h])]]

\* sanitizedValues of each record, for the headers of the first.
sanitizedRows(allRecords) ==
    LET headers == ObjectKeys(allRecords[1]) IN
    [r \in 1..Len(allRecords) |->
        [h \in 1..Len(headers) |-> sanitizedValue(allRecords[r], headers[h])]]

\* headerRow + "\n" + dataRows: csvContent without its "data:" prefix, before
\* encodeURI.
csvText(allRecords) ==
    LET headers   == ObjectKeys(allRecords[1])
        headerRow == Join(headers, <<COMMA>>)
        rows      == sanitizedRows(allRecords)
        dataRows  == Join([r \in 1..Len(rows) |-> Join(rows[r], <<COMMA>>)], <<NEWLINE>>)
    IN  headerRow \o <<NEWLINE>> \o dataRows

\* "Export All to CSV" on the records of csvRecords: nothing is built for an
\* empty store; otherwise the cells and the text built from them.
ExportToCsv ==
    /\ ~csvExport.done
    /\ IF Len(csvRecords) = 0
       THEN /\ status' = Status("No records saved to export.", 0, "blue")
            /\ csvExport' = [done |-> TRUE, cells |-> <<>>, text |-> <<>>]
       ELSE /\ status' = Status("Successfully exported N records.", Len(csvRecords), "green")
            /\ csvExport' = [done |-> TRUE, cells |-> sanitizedRows(csvRecords),
                             text |-> csvText(csvRecords)]
    /\ UNCHANGED <<formData, fixedFields, dentalCampRecords, recordsCorrupt,
                   captureVars, csvRecords>>

\* Inputs of SpecCsv.
CsvChars == {"a", COMMA, QUOTE, NEWLINE}

CsvValues == UNION {[1..n -> CsvChars] : n \in 0..MaxLen}

KeyA == <<"a">>
KeyB == <<"b">>
KeyC == <<"c">>

\* The records of the spec's example:
\* [{a: '1,2', b: 'he said "hi"'}, {a: '3', b: 'line1\nline2'}]
ExampleRecords ==
    << << <<KeyA, <<"1", ",", "2">> >>,
          <<KeyB, <<"h", "e", " ", "s", "a", "i", "d", " ", "\"", "h", "i", "\"">> >> >>,
       << <<KeyA, <<"3">> >>,
          <<KeyB, <<"l", "i", "n", "e", "1", "\n", "l", "i", "n", "e", "2">> >> >> >>

\* Stores of one record {a, b}, and of two records whose second has the keys
\* in another order, lacks one, or has one the first lacks.
CsvStores ==
    {<<>>, ExampleRecords}
        \cup { << << <<KeyA, v>>, <<KeyB, w>> >> >> : v \in CsvValues, w \in CsvValues }
        \cup { << << <<KeyA, v>>, <<KeyB, <<"a">> >> >>, second >> :
                  v \in CsvValues,
                  second \in UNION { { << <<KeyB, w>>, <<KeyA, <<>> >> >>,
                                       << <<KeyA, w>> >>,
                                       << <<KeyA, <<>> >>, <<KeyC, w>> >> }
                                     : w \in CsvValues } }

InitCsv ==
    /\ formData = getInitialState
    /\ fixedFields = saveFixedFields(getInitialState)
    /\ dentalCampRecords = <<>>
    /\ recordsCorrupt = FALSE
    /\ status = InitialStatus
    /\ pendingMic = [c \in Targets |-> 0]
    /\ recorders = [c \in Targets |-> <<>>]
    /\ mediaRecorderRef = [c \in Targets |-> 0]
    /\ audioChunksRef = [c \in Targets |-> <<>>]
    /\ isRecording = Idle
    /\ isProcessing = Idle
    /\ inflight = [c \in Targets |-> {}]
    /\ orphanStreams = [c \in Targets |-> 0]
    /\ csvRecords \in CsvStores
    /\ csvExport = NoExport

NextCsv == ExportToCsv

SpecCsv == InitCsv /\ [][NextCsv]_vars

----------------------------------------------------------------------------
(* Claims about the form and the record store, checked under Spec.         *)

AllEmpty(data) == \A k \in DOMAIN data : data[k] = ""

SuccessfulExtraction(d) ==
    DeliverExtraction(Response("json", ExtractBody({"extracted_data"}, "", d)))

SuccessfulTranscription(fieldId, text) ==
    DeliverTranscription(fieldId, Response("json", Single("text", text)))

\* C4: after a successful extraction whose result holds only some of the
\* field-names, every field-name absent from the result keeps its value and
\* every field-name present has the result's value.
C4_ExtractionMerges ==
    [][\A d \in ExtractedData :
          (SuccessfulExtraction(d) /\ DOMAIN d \subseteq FieldNames) =>
              \A k \in FieldNames :
                  formData'[k] = IF k \in DOMAIN d THEN d[k] ELSE formData[k]]_vars

\* A state a partial extraction leaves: the result {patient_name: "x"} is in
\* the form beside the organiser entered before it.
C4_Witness ==
    /\ status.message = "Analysis complete. N fields were filled. Please review."
    /\ status.count = 1
    /\ formData["organised_by"] = "x"
    /\ formData["patient_name"] = "x"

\* C5: every update of the form by a transcription result (applyOne) or an
\* extraction result (applyMany), whatever the service returned, leaves the set
\* of keys of the form as it was and every value a string.
C5_KeysAndStringsPreserved ==
    [][((\E f \in FieldNames, r \in TranscribeResponses : DeliverTranscription(f, r))
          \/ (\E r \in ExtractResponses : DeliverExtraction(r))) =>
              /\ DOMAIN formData' = DOMAIN formData
              /\ \A k \in DOMAIN formData' : formData'[k] # NULL]_vars

\* C6: submitting a form whose every value is '' leaves the stored records and
\* the form (and its saved fixed fields) as they were.
C6_EmptySubmitChangesNothing ==
    [][((\E w \in BOOLEAN : handleSubmitRecord(w)) /\ AllEmpty(formData)) =>
          /\ dentalCampRecords' = dentalCampRecords
          /\ recordsCorrupt' = recordsCorrupt
          /\ formData' = formData
          /\ fixedFields' = fixedFields]_vars

\* A state an empty submit leaves, with a record already in the store.
C6_Witness ==
    /\ status.message = "Form is empty, nothing to submit."
    /\ AllEmpty(formData)
    /\ Len(dentalCampRecords) = 1

\* C7: submitting a form with a non-empty value, the storage being writable,
\* makes the stored sequence one longer, its new last record equal to the form
\* as it was at the submit and the earlier records as they were; and no later
\* change of the live form (edit, transcription, extraction, reset,
\* startNewDay) changes a stored record: the stored sequence changes only in a
\* submit or a confirmed clear.
C7_SubmitAppendsSnapshot ==
    [][/\ (handleSubmitRecord(TRUE) /\ ~AllEmpty(formData)) =>
            /\ Len(dentalCampRecords') = Len(dentalCampRecords) + 1
            /\ dentalCampRecords'[Len(dentalCampRecords')] = formData
            /\ SubSeq(dentalCampRecords', 1, Len(dentalCampRecords)) = dentalCampRecords
       /\ dentalCampRecords' # dentalCampRecords =>
            \/ handleSubmitRecord(TRUE)
            \/ handleClearCache(TRUE)]_vars

\* A state with two submitted records, the live form since changed away from
\* the last of them.
C7_Witness ==
    /\ Len(dentalCampRecords) = 2
    /\ dentalCampRecords[1]["patient_name"] = "x"
    /\ dentalCampRecords[2]["organised_by"] = "x"
    /\ dentalCampRecords[2]["patient_name"] = ""
    /\ formData["patient_name"] = "x"
    /\ formData["organised_by"] = ""

\* A submit that stored the record (and so went on to reset the form).
SuccessfulSubmit == handleSubmitRecord(TRUE) /\ ~AllEmpty(formData)

\* C8: after a reset, invoked directly or as the last step of a successful
\* submit, every persistent field has the value it had just before, and every
\* transient field is ''.
C8_ResetKeepsPersistentFields ==
    [][(handleResetForm \/ SuccessfulSubmit) =>
          /\ \A k \in FIXED_FIELDS : formData'[k] = formData[k]
          /\ \A k \in TransientFields : formData'[k] = ""]_vars

\* A state a reset leaves: the organiser kept, the patient's name cleared.
C8_Witness ==
    /\ status.message = "Form cleared. Ready for next entry."
    /\ formData["organised_by"] = "x"
    /\ formData["patient_name"] = ""
    /\ Len(dentalCampRecords) = 1
    /\ dentalCampRecords[1]["patient_name"] = "x"

\* C9: after startNewDay every field of the form is '', and the saved fixed
\* fields hold no earlier value, so that a reset that follows brings none back.
C9_StartNewDayClearsAll ==
    [][startNewDay =>
          /\ DOMAIN formData' = FieldNames
          /\ AllEmpty(formData')
          /\ AllEmpty(fixedFields')
          /\ AllEmpty(Spread([k \in FieldNames |-> ""], fixedFields'))]_vars

\* A state startNewDay leaves after a day whose organiser was submitted and
\* kept by the reset of that submit: form and saved fixed fields are empty.
C9_Witness ==
    /\ status.message = "Form cleared. Ready for next entry."
    /\ Len(dentalCampRecords) = 1
    /\ dentalCampRecords[1]["organised_by"] = "x"
    /\ AllEmpty(formData)
    /\ AllEmpty(fixedFields)

\* C12: when a successful submit has completed, the status is the success
\* status carrying the new total of stored records.
C12_SubmitReportsTotal ==
    [][SuccessfulSubmit =>
          /\ status'.message = "Record submitted. Total: N. Ready for next entry."
          /\ status'.color = "green"
          /\ status'.count = Len(dentalCampRecords')]_vars

\* C13: while the stored entry of the records is unreadable, every operation
\* that reads it does what it does on an empty store: a submit stores the
\* form as the only record, and an export reports that there is nothing to
\* export, not an error.
C13_CorruptReadsAsEmpty ==
    [][recordsCorrupt =>
          /\ SuccessfulSubmit =>
                /\ dentalCampRecords' = <<formData>>
                /\ ~recordsCorrupt'
          /\ handleExportToCsv =>
                status' = Status("No records saved to export.", 0, "blue")]_vars

\* A submit of a form with a non-empty value whose write to storage fails.
FailedSubmit == handleSubmitRecord(FALSE) /\ ~AllEmpty(formData)

\* C14: when the write of the records fails during a submit, an error status
\* is reported, the stored records are what they were, and the form still
\* holds every value that was submitted.
C14_FailedWriteKeepsForm ==
    [][FailedSubmit =>
          /\ status' = Status("Error saving to local record cache.", 0, "red")
          /\ dentalCampRecords' = dentalCampRecords
          /\ recordsCorrupt' = recordsCorrupt
          /\ formData' = formData
          /\ fixedFields' = fixedFields]_vars

\* A state a failed second submit leaves: the first record is stored, the
\* values of the second are still in the form.
C14_Witness ==
    /\ status.message = "Error saving to local record cache."
    /\ formData["patient_name"] = "x"
    /\ formData["organised_by"] = "x"
    /\ Len(dentalCampRecords) = 1
    /\ dentalCampRecords[1]["organised_by"] = ""

\* C21: on a successful transcription for a field, exactly that field of the
\* form is set to the returned text and every other field keeps its value; the
\* success status is reported with the field set, not before.
C21_TranscriptionSetsOneField ==
    [][\A fieldId \in FieldNames, text \in Texts :
          SuccessfulTranscription(fieldId, text) =>
              /\ DOMAIN formData' = DOMAIN formData
              /\ formData'[fieldId] = text
              /\ \A k \in DOMAIN formData \ {fieldId} : formData'[k] = formData[k]
              /\ fixedFields' = saveFixedFields(formData')
              /\ status' = Status("Transcription completed.", 0, "green")]_vars

\* A state a successful transcription leaves: the transcribed field holds the
\* text, beside a value of the other field stored in a record before.
C21_Witness ==
    /\ status = Status("Transcription completed.", 0, "green")
    /\ formData["patient_name"] = "x"
    /\ formData["organised_by"] = "x"
    /\ Len(dentalCampRecords) = 1
    /\ dentalCampRecords[1]["organised_by"] = "x"
    /\ dentalCampRecords[1]["patient_name"] = ""

\* A step of an operation other than a submit or a confirmed clear.
OtherOperation ==
    \/ handleResetForm
    \/ startNewDay
    \/ handleExportToCsv
    \/ handleClearCache(FALSE)
    \/ Mount
    \/ \E key \in FieldNames, value \in Texts : handleChange(key, value)
    \/ \E fieldId \in FieldNames, response \in TranscribeResponses :
          DeliverTranscription(fieldId, response)
    \/ \E response \in ExtractResponses : DeliverExtraction(response)

\* C22: the stored records are append-only: in every step they stay the same,
\* or become the previous records with exactly one record added at the end (a
\* successful submit), or become empty (a confirmed clear); no stored record
\* is reordered or rewritten, and no step of a reset, startNewDay, export,
\* transcription, extraction, edit or declined clear changes them.
C22_RecordsAppendOnly ==
    [][/\ \/ dentalCampRecords' = dentalCampRecords
          \/ /\ SuccessfulSubmit
             /\ Len(dentalCampRecords') = Len(dentalCampRecords) + 1
             /\ \A i \in 1..Len(dentalCampRecords) :
                   dentalCampRecords'[i] = dentalCampRecords[i]
          \/ /\ handleClearCache(TRUE)
             /\ dentalCampRecords' = <<>>
       /\ dentalCampRecords' # dentalCampRecords => ~OtherOperation]_vars

\* A state with two different records stored one after the other, an export
\* having read them since.
C22_Witness ==
    /\ status = Status("Successfully exported N records.", 2, "green")
    /\ Len(dentalCampRecords) = 2
    /\ dentalCampRecords[1]["patient_name"] = "x"
    /\ dentalCampRecords[1]["organised_by"] = ""
    /\ dentalCampRecords[2]["patient_name"] = ""
    /\ dentalCampRecords[2]["organised_by"] = "x"

\* C23: between events (every pending update rendered, every save effect
\* run) the saved fixedFields entry is the form's values of the fixed fields,
\* after an edit, a transcription, an extraction, a reset or startNewDay; and a
\* load of the page with an entry saved before restores the saved values, the
\* entry being afterwards what it was.
C23_CacheIsProjection ==
    /\ [](/\ DOMAIN fixedFields = FIXED_FIELDS
          /\ \A k \in FIXED_FIELDS : fixedFields[k] = formData[k])
    /\ [][Mount =>
             /\ \A k \in FIXED_FIELDS : formData'[k] = fixedFields[k]
             /\ \A k \in TransientFields : formData'[k] = ""
             /\ fixedFields' = fixedFields]_vars

\* A state after the page was loaded again with a record stored and an
\* organiser saved: the organiser is in the form and in the saved entry.
C23_Witness ==
    /\ status = InitialStatus
    /\ Len(dentalCampRecords) = 1
    /\ formData["organised_by"] = "x"
    /\ formData["patient_name"] = ""
    /\ fixedFields["organised_by"] = "x"

----------------------------------------------------------------------------
(* Claims about the capture sessions, checked under SpecCapture.           *)

\* The microphone of context c is being recorded: one of its recorders is in
\* state "recording".
Recording(c) == \E r \in 1..Len(recorders[c]) : recorders[c][r].state = "recording"

\* C1: for every capture target, a start request issued while its session is
\* Recording, or before the first grant was answered, is rejected: while the
\* current recorder records, the session keeps that recorder and no other
\* recorder (with its re-initialised chunk buffer) is created.
C1_StartRejectedWhileRecording ==
    [][\A c \in Targets :
          currentIsRecording(c) =>
              /\ mediaRecorderRef'[c] = mediaRecorderRef[c]
              /\ Len(recorders'[c]) = Len(recorders[c])]_vars

\* C2: in every reachable state at most one capture context is Recording.
C2_AtMostOneRecording == Cardinality({c \in Targets : Recording(c)}) <= 1

\* The request failed: transport failure, non-2xx response, or a 2xx response
\* whose body carries an error field.
RequestFailed(c, response) ==
    \/ response.kind \in {"network", "http"}
    \/ /\ response.kind = "json"
       /\ IF c = WHOLE THEN "error" \in response.body.has
                       ELSE "error" \in DOMAIN response.body

Finalizing(c, r) ==
    /\ r \in 1..Len(recorders[c])
    /\ \/ recorders[c][r].stopQueued
       \/ \E payload \in inflight[c] : payload[Len(payload)] = r

\* The session of recorder r of context c is over and c does not process: a
\* click on c's button is accepted again.
BackToIdle(c, r) ==
    /\ r \in 1..Len(recorders[c])
    /\ recorders[c][r].state = "inactive"
    /\ ~Finalizing(c, r)
    /\ ~isProcessing[c]

\* C16: after the stop of a recording session, the requests that were sent
\* resolving in the end, the session is over in the end and its context does
\* not process, whatever the outcome of the request; the stop itself has reset
\* isRecording.
C16_StoppedSessionReturnsToIdle ==
    /\ \A c \in Targets : \A r \in 1..MaxStarts : Finalizing(c, r) ~> BackToIdle(c, r)
    /\ [][\A c \in Targets : (stopRecording(c) /\ currentIsRecording(c)) =>
              ~isRecording'[c] /\ Finalizing(c, mediaRecorderRef[c])']_vars

\* A state a failed extraction request leaves: the only session of the page
\* is over, the page neither records nor processes.
C16_Witness ==
    /\ status = Status("Error: Failed to fetch", 0, "red")
    /\ recorders[WHOLE] = <<Recorder("inactive", FALSE, FALSE)>>
    /\ BackToIdle(WHOLE, 1)
    /\ ~isRecording[WHOLE]
    /\ audioChunksRef[WHOLE] = <<>>

\* Context c holds a microphone stream: one whose recorder could not be set
\* up, or the stream of a recorder whose tracks were not stopped.
StreamHeld(c) ==
    \/ orphanStreams[c] > 0
    \/ \E r \in 1..Len(recorders[c]) : recorders[c][r].live

\* C17: in no reachable state is a session Idle (it neither records nor
\* processes) while a stream one of its starts acquired is still held.
C17_IdleHoldsNoStream ==
    \A c \in Targets : (~isRecording[c] /\ ~isProcessing[c]) => ~StreamHeld(c)

\* C18: from the stop of a session until its request has resolved, no start
\* for the same target is accepted: no step taken while a session of context c
\* is finalizing is a start of c.
C18_NoStartWhileFinalizing ==
    [][\A c \in Targets :
          (\E r \in 1..MaxStarts : Finalizing(c, r)) => ~startRecording(c)]_vars

\* The payloads sent for context c hold one session's chunks each: the one
\* chunk of one recorder.
OwnChunksOnly(c) ==
    \A payload \in inflight[c] : \E r \in 1..Len(recorders[c]) : payload = <<r>>

\* C19: the payload sent for a session consists of exactly the chunks that
\* arrived during that session, in their order, under any interleaving with
\* another start, stop or request completion; and once a request has resolved
\* the chunk buffer is empty.
C19_PayloadIsOwnChunks ==
    /\ [](\A c \in Targets : OwnChunksOnly(c))
    /\ [][\A c \in Targets : \A payload \in inflight[c], response \in Responses(c) :
              requestResolved(c, payload, response) => audioChunksRef'[c] = <<>>]_vars

\* C20: when a start fails before recording begins (the microphone is denied,
\* or the set-up of the recorder fails after the grant), the session is Idle
\* afterwards, the microphone error is reported, and nothing else has changed:
\* no recorder or buffer is installed, no stream is held, the form and the
\* stored records are what they were.
C20_FailedStartChangesNothing ==
    [][\A c \in Targets :
          (getUserMediaDenied(c) \/ getUserMediaGrantedSetupFails(c)) =>
              /\ ~isRecording'[c]
              /\ ~isProcessing'[c]
              /\ status' = micErrorStatus
              /\ recorders' = recorders
              /\ mediaRecorderRef' = mediaRecorderRef
              /\ audioChunksRef' = audioChunksRef
              /\ orphanStreams' = orphanStreams
              /\ formData' = formData
              /\ fixedFields' = fixedFields
              /\ dentalCampRecords' = dentalCampRecords]_vars

----------------------------------------------------------------------------
(* Claims about the status channel.                                        *)

\* A step of Spec in which an error of the taxonomy occurs: a failed
\* transcription or extraction request (TransportError, ResultError), a submit
\* of an empty form (EmptySubmissionError), an export that cannot read the
\* stored entry (PersistenceReadError), a submit whose write fails
\* (PersistenceWriteError).
ErrorOccurs ==
    \/ \E f \in FieldNames, r \in TranscribeResponses :
          DeliverTranscription(f, r) /\ RequestFailed(f, r)
    \/ \E r \in ExtractResponses : DeliverExtraction(r) /\ RequestFailed(WHOLE, r)
    \/ (\E w \in BOOLEAN : handleSubmitRecord(w)) /\ AllEmpty(formData)
    \/ handleExportToCsv /\ recordsCorrupt
    \/ FailedSubmit

\* C15: every error of the taxonomy, when it occurs, sets the status to a
\* message of error severity (red), never of info or success severity.
C15_ErrorsAreRed == [][ErrorOccurs => status'.color = "red"]_vars

----------------------------------------------------------------------------
(* Claims about the CSV export, checked under SpecCsv.                     *)

\* The number of double quotes among the first n characters of v.
QuotesBefore(v, n) == Cardinality({i \in 1..n : v[i] = QUOTE})

\* o is v wrapped in double quotes with every double quote of v doubled.
WrappedAndDoubled(v, o) ==
    /\ Len(o) = Len(v) + 2 + QuotesBefore(v, Len(v))
    /\ o[1] = QUOTE
    /\ o[Len(o)] = QUOTE
    /\ \A i \in 1..Len(v) :
          /\ o[1 + i + QuotesBefore(v, i - 1)] = v[i]
          /\ v[i] = QUOTE => o[2 + i + QuotesBefore(v, i - 1)] = QUOTE

ContainsSpecial(v) == \E i \in 1..Len(v) : v[i] \in {COMMA, NEWLINE, QUOTE}

\* The value record r holds under the j-th key of the first record.
StoredValue(r, j) ==
    LET key == csvRecords[1][j][1]
        at  == {i \in 1..Len(csvRecords[r]) : csvRecords[r][i][1] = key}
    IN  IF at = {} THEN <<>> ELSE csvRecords[r][CHOOSE i \in at : TRUE][2]

\* The text the spec gives for its example.
ExampleText ==
    <<"a", ",", "b", "\n">>
    \o <<"\"", "1", ",", "2", "\"", ",">>
    \o <<"\"", "h", "e", " ", "s", "a", "i", "d", " ", "\"", "\"", "h", "i", "\"", "\"", "\"", "\n">>
    \o <<"3", ",">>
    \o <<"\"", "l", "i", "n", "e", "1", "\n", "l", "i", "n", "e", "2", "\"">>

\* C10: in the export each cell is the record's value wrapped in double quotes
\* with its double quotes doubled if and only if the value contains a comma, a
\* newline or a double quote, and the value verbatim otherwise; the spec's
\* example exports as the text the spec gives.
C10_CellQuoting ==
    (csvExport.done /\ Len(csvRecords) > 0) =>
        /\ Len(csvExport.cells) = Len(csvRecords)
        /\ \A r \in 1..Len(csvRecords) :
              /\ Len(csvExport.cells[r]) = Len(csvRecords[1])
              /\ \A j \in 1..Len(csvRecords[1]) :
                    IF ContainsSpecial(StoredValue(r, j))
                    THEN WrappedAndDoubled(StoredValue(r, j), csvExport.cells[r][j])
                    ELSE csvExport.cells[r][j] = StoredValue(r, j)
        /\ csvRecords = ExampleRecords => csvExport.text = ExampleText

\* The spec's example, exported.
C10_Witness ==
    /\ csvExport.done
    /\ csvRecords = ExampleRecords
    /\ csvExport.text = ExampleText
    /\ csvExport.cells[1][2][1] = QUOTE

\* The rows of cells a CSV reader finds in text from position i on: a quoted
\* cell runs to its closing quote, a doubled quote inside it is one quote;
\* outside quotes a comma ends the cell and a newline ends the row.
RECURSIVE ReadCsvFrom(_, _, _, _, _, _)
ReadCsvFrom(text, i, rows, row, cell, quoted) ==
    IF i > Len(text) THEN Append(rows, Append(row, cell))
    ELSE IF quoted
    THEN IF text[i] # QUOTE
         THEN ReadCsvFrom(text, i + 1, rows, row, Append(cell, text[i]), TRUE)
         ELSE IF i < Len(text) /\ text[i + 1] = QUOTE
         THEN ReadCsvFrom(text, i + 2, rows, row, Append(cell, QUOTE), TRUE)
         ELSE ReadCsvFrom(text, i + 1, rows, row, cell, FALSE)
    ELSE IF text[i] = QUOTE
    THEN ReadCsvFrom(text, i + 1, rows, row, cell, TRUE)
    ELSE IF text[i] = COMMA
    THEN ReadCsvFrom(text, i + 1, rows, Append(row, cell), <<>>, FALSE)
    ELSE IF text[i] = NEWLINE
    THEN ReadCsvFrom(text, i + 1, Append(rows, Append(row, cell)), <<>>, <<>>, FALSE)
    ELSE ReadCsvFrom(text, i + 1, rows, row, Append(cell, text[i]), FALSE)

ReadCsv(text) == ReadCsvFrom(text, 1, <<>>, <<>>, <<>>, FALSE)

\* C11: the text exported for a non-empty store reads as a header row holding
\* the keys of the first record in their insertion order, then one row per
\* record in store order, each with one cell per header key: the record's value
\* under that key, empty when the record lacks the key.  A value under a key
\* the first record lacks is in no cell, and the export is built all the same.
C11_HeaderAndRows ==
    (csvExport.done /\ Len(csvRecords) > 0) =>
        LET read == ReadCsv(csvExport.text) IN
        /\ Len(read) = Len(csvRecords) + 1
        /\ read[1] = [j \in 1..Len(csvRecords[1]) |-> csvRecords[1][j][1]]
        /\ \A r \in 1..Len(csvRecords) :
              /\ Len(read[r + 1]) = Len(csvRecords[1])
              /\ \A j \in 1..Len(csvRecords[1]) : read[r + 1][j] = StoredValue(r, j)
        /\ status = Status("Successfully exported N records.", Len(csvRecords), "green")

\* An exported store whose second record lacks key b and holds a comma under
\* key c, which the first record lacks: its row is two empty cells.
C11_Witness ==
    /\ csvExport.done
    /\ csvRecords = << << <<KeyA, <<"a">> >>, <<KeyB, <<"a">> >> >>,
                       << <<KeyA, <<>> >>, <<KeyC, <<COMMA>> >> >> >>
    /\ csvExport.text = <<"a", COMMA, "b", NEWLINE, "a", COMMA, "a", NEWLINE, COMMA>>

====
